---- MODULE Spec2Model ----
(***************************************************************************)
(* Model of zerotier_bridge_setup_v1_5.py: an interactive provisioning     *)
(* script.  One run of main() is a sequence of stages; the state is the    *)
(* host (files, services, job table, installed software), the in-memory    *)
(* configuration and what the run has said and asked so far.               *)
(*                                                                         *)
(* Text (file contents, operator input) is a sequence of tokens; a token   *)
(* is a piece of text that the program never looks inside.  Substring      *)
(* tests ("x in content") are contiguous-subsequence tests on tokens.      *)
(***************************************************************************)
EXTENDS Integers, Sequences, FiniteSets, TLC

(* ------------------------------------------------------------------ *)
(* Bounds of the model                                                 *)
(* ------------------------------------------------------------------ *)
MaxLines == 2
MaxCronLines == 2
MaxCalls == 2

(* ------------------------------------------------------------------ *)
(* Text helpers                                                        *)
(* ------------------------------------------------------------------ *)
NL == "\n"
SP == " "

\* Python's "needle in hay" on strings
Contains(needle, hay) ==
    \E i \in 1..(Len(hay) - Len(needle) + 1) :
        SubSeq(hay, i, i + Len(needle) - 1) = needle

\* number of places where needle occurs in hay
Occurrences(needle, hay) ==
    Cardinality({ i \in 1..(Len(hay) - Len(needle) + 1) :
                    SubSeq(hay, i, i + Len(needle) - 1) = needle })

\* number of whole lines of hay equal to line (line holds no newline)
LineCount(line, hay) ==
    Cardinality({ i \in 1..(Len(hay) - Len(line) + 1) :
        /\ SubSeq(hay, i, i + Len(line) - 1) = line
        /\ (i = 1 \/ hay[i - 1] = NL)
        /\ (i + Len(line) - 1 = Len(hay) \/ hay[i + Len(line)] = NL) })

RECURSIVE Flatten(_)
Flatten(ss) == IF ss = <<>> THEN <<>> ELSE Head(ss) \o Flatten(Tail(ss))

RECURSIVE LStrip(_)
LStrip(s) == IF s # <<>> /\ Head(s) \in {SP, NL} THEN LStrip(Tail(s)) ELSE s

RECURSIVE RStrip(_)
RStrip(s) ==
    IF s # <<>> /\ s[Len(s)] \in {SP, NL} THEN RStrip(SubSeq(s, 1, Len(s) - 1)) ELSE s

\* str.strip()
Strip(s) == RStrip(LStrip(s))

LowerChar(c) ==
    CASE c = "Y" -> "y"
      [] c = "E" -> "e"
      [] c = "S" -> "s"
      [] c = "N" -> "n"
      [] c = "O" -> "o"
      [] OTHER -> c

\* str.lower()
Lower(s) == [i \in 1..Len(s) |-> LowerChar(s[i])]

\* a file of the host: absent, or present with a content
Absent == [exists |-> FALSE, content |-> <<>>]
File(c) == [exists |-> TRUE, content |-> c]


(* ------------------------------------------------------------------ *)
(* Program constants                                                   *)
(* ------------------------------------------------------------------ *)
\* packages = ['bridge-utils', 'ifupdown']
packages == <<"bridge-utils", "ifupdown">>

\* architectures dpkg may report; known_packages and snapshot_urls hold an
\* entry for armhf and arm64 only
Archs == {"armhf", "amd64"}
KnownArchs == {"armhf", "arm64"}

\* package_name in known_packages and arch in known_packages[package_name]
known_packages(package, arch) ==
    package \in {"bridge-utils", "ifupdown"} /\ arch \in KnownArchs

\* package_name in snapshot_urls and arch in snapshot_urls[package_name]
snapshot_urls(package, arch) ==
    package \in {"ifupdown"} /\ arch \in KnownArchs

mirrors == <<"http://ftp.debian.org/debian/", "http://deb.debian.org/debian/",
             "http://ftp.ch.debian.org/debian/", "http://ftp.de.debian.org/debian/">>

\* file_size > 1000
MinSize == 1000

default_interface == <<"eth0">>
default_netmask == <<"2", "5", "5", ".", "2", "5", "5", ".", "2", "5", "5", ".", "0">>
default_dns == <<"8.8.8.8 8.8.4.4">>

\* the two substrings configure_dhcpcd looks for, and the lines it appends
DENY == "denyinterfaces "
NeedleEth0 == <<DENY, "eth0">>
NeedleZt == <<DENY, "zt">>
DirectiveEth0 == <<DENY, "eth0">>
DirectiveZt == <<DENY, "zt", "*">>
DhcpcdHeader ==
    <<"# dhcpcd configuration for ZeroTier bridge", NL,
      "# Created by zerotier_bridge_setup.py", NL, NL>>
DhcpcdSection ==
    <<NL, "# ZeroTier Bridge Configuration", NL,
      "# Prevent dhcpcd from managing bridge interfaces", NL>>
    \o DirectiveEth0 \o <<NL>> \o DirectiveZt \o <<NL>>

\* cron_command = f"@reboot sleep 45 && /usr/sbin/brctl addif br0 {zt_interface} >> ..."
cron_command(zt_interface) ==
    <<"@reboot sleep 45 && /usr/sbin/brctl addif br0 ", zt_interface,
      " >> /tmp/bridge-setup.log 2>&1">>

\* the body configure_network_interfaces writes
interfaces_config(config) ==
    <<"# /etc/network/interfaces", NL, "# Configured by zerotier_bridge_setup.py", NL, NL,
      "# Loopback interface", NL, "auto lo", NL, "iface lo inet loopback", NL, NL,
      "# Physical interface - no IP configuration (manual mode)", NL,
      "auto ">> \o config.physical_interface \o <<NL,
      "iface ">> \o config.physical_interface \o <<" inet manual", NL, NL,
      "# Bridge interface", NL, "auto br0", NL, "iface br0 inet static", NL,
      "    address ">> \o config.bridge_ip \o <<NL,
      "    netmask ">> \o config.netmask \o <<NL,
      "    gateway ">> \o config.gateway \o <<NL,
      "    dns-nameservers ">> \o config.dns \o <<NL,
      "    bridge_ports ">> \o config.physical_interface \o <<NL,
      "    bridge_stp off", NL, "    bridge_fd 0", NL, "    bridge_maxwait 0", NL>>

(* ------------------------------------------------------------------ *)
(* What the operator may type, and what the host may hold at the start *)
(* ------------------------------------------------------------------ *)
MaxTries == 2

Digits == {"0", "1", "2", "3", "4", "5", "6", "7", "8", "9"}

\* the groups of s between dots
RECURSIVE SplitDots(_, _)
SplitDots(s, cur) ==
    IF s = <<>> THEN <<cur>>
    ELSE IF Head(s) = "." THEN <<cur>> \o SplitDots(Tail(s), <<>>)
    ELSE SplitDots(Tail(s), Append(cur, Head(s)))

\* re.match(r'^(\d{1,3}\.){3}\d{1,3}$', s)
ip_regex_match(s) ==
    LET groups == SplitDots(s, <<>>)
    IN  /\ Len(groups) = 4
        /\ \A g \in 1..4 :
              /\ Len(groups[g]) \in 1..3
              /\ \A i \in 1..Len(groups[g]) : groups[g][i] \in Digits

PhysInputs == { <<>>, <<"eth0">>, <<SP, "eth1", SP>> }
BridgeIpInputs ==
    { <<"1", "0", ".", "0", ".", "0", ".", "2">>,
      <<"1", "0", ".", "0", ".", "2">>,
      <<"a", ".", "b", ".", "c", ".", "d">>,
      <<"1", "0", "0", "0", ".", "0", ".", "0", ".", "2">> }
GatewayInputs ==
    { <<"1", "0", ".", "0", ".", "0", ".", "1">>,
      <<"1", "0", ".", "0", ".", "0", ".", "0", ".", "1">> }
NetmaskInputs == { <<>> }
DnsInputs == { <<>> }
Hex16 == <<"a", "8", "4", "a", "c", "5", "c", "1", "0", "a", "1", "b", "2", "c", "3", "d">>
ZtInputs == { <<>>, <<"a", "8", "4">>, Hex16 }
\* a wider choice of netmasks and network ids, for the runs that stop after get_user_input
NetmaskTyped ==
    { <<>>, <<"2", "5", "5", ".", "2", "5", "5", ".", "0", ".", "0">>,
      <<"/", "2", "4">>, <<"2", "5", "5", ".", "2", "5", "5">> }
NotHex16 == <<"z", "e", "r", "o", "t", "i", "e", "r", "-", "n", "e", "t", "w", "o", "r", "k">>
ZtTyped == ZtInputs \cup { NotHex16, <<SP>> \o Hex16 \o <<SP>>, Hex16 \o <<"0">> }
YesNoInputs ==
    { <<"y", "e", "s">>, <<"y">>, <<SP, "Y", "E", "S", SP>>, <<"Y">>,
      <<"n", "o">>, <<"y", "e", "s", "!">>, <<>> }
Yes == { <<"y", "e", "s">>, <<"y">> }

\* what a "while True: input ... if re.match: break" loop reads: attempts up to
\* and including the first one that matches
Tries(inputs) ==
    { t \in UNION { [1..n -> inputs] : n \in 1..MaxTries } :
        /\ ip_regex_match(Strip(t[Len(t)]))
        /\ \A i \in 1..(Len(t) - 1) : ~ip_regex_match(Strip(t[i])) }

BridgeIpTries == Tries(BridgeIpInputs)
GatewayTries == Tries(GatewayInputs)

\* initial contents of /etc/dhcpcd.conf, /etc/network/interfaces and the job table
OtherLine == <<"# other", NL>>
DhcpcdInit ==
    { Absent, File(DhcpcdHeader),
      File(DirectiveEth0 \o <<NL>> \o DirectiveZt \o <<NL>>) }
InterfacesInit == { Absent, File(<<"auto lo", NL, "iface eth0 inet dhcp", NL>>) }
ZtNames == {"ztabc"}
CronInit ==
    { Absent, File(<<"0 3 * * * /usr/bin/backup", NL>> \o cron_command("ztabc") \o <<NL>>) }

(* ------------------------------------------------------------------ *)
(* State                                                               *)
(* ------------------------------------------------------------------ *)
VARIABLES
    pc,                  \* where the run is
    exited, exitCode,    \* whether the process has ended, and its exit status
    euid,                \* os.geteuid()
    config,              \* the dictionary get_user_input returns
    arch, pkgIdx, mirrorIdx, installation_failed,   \* install_packages' locals
    tiers,               \* attempts made for the package being processed, in order
    download,            \* what the latest wget left behind
    zt_interface,        \* main's local
    nmActive,            \* whether NetworkManager is active on the host
    dhcpcd, interfaces,  \* /etc/dhcpcd.conf and /etc/network/interfaces
    backups,             \* backup copies present: (path, content)
    cron,                \* root's job table
    installs,            \* what this run installed: "package", "zerotier"
    joined, allowManaged,\* overlay networks joined / with allowManaged=0 set
    replies,             \* prompts answered so far: <<prompt, normalised answer>>
    cmds,                \* external commands run so far
    out,                 \* messages printed so far
    trace,               \* stages entered so far, in order
    calls                \* results of earlier invocations, when a stage is re-invoked

vars == << pc, exited, exitCode, euid, config, arch, pkgIdx, mirrorIdx, tiers,
           download, installation_failed, zt_interface, nmActive, dhcpcd, interfaces, backups,
           cron, installs, joined, allowManaged, replies, cmds, out, trace, calls >>

NoConfig ==
    [ physical_interface |-> <<>>, bridge_ip |-> <<>>, netmask |-> <<>>,
      gateway |-> <<>>, dns |-> <<>>, zerotier_network |-> <<>> ]

\* the process before main() runs, on a host in some initial condition
Init ==
    /\ pc = "check_root"
    /\ exited = FALSE /\ exitCode = 0
    /\ euid \in {0, 1000}
    /\ config = NoConfig
    /\ arch = "" /\ pkgIdx = 0 /\ mirrorIdx = 0 /\ tiers = <<>>
    /\ download = [rc |-> 0, size |-> 0]
    /\ installation_failed = <<>>
    /\ zt_interface = "None"
    /\ nmActive \in BOOLEAN
    /\ dhcpcd \in DhcpcdInit
    /\ interfaces \in InterfacesInit
    /\ backups = {}
    /\ cron \in CronInit
    /\ installs = {} /\ joined = {} /\ allowManaged = {}
    /\ replies = {} /\ cmds = {} /\ out = {}
    /\ trace = <<>>
    /\ calls = <<>>

\* sys.exit(code)
sys_exit(code) == pc' = "exit" /\ exited' = TRUE /\ exitCode' = code

(* ------------------------------------------------------------------ *)
(* PrivilegeCheck                                                      *)
(* ------------------------------------------------------------------ *)
\* os.geteuid() != 0 is the test for "not root"
is_root_any(uid) == uid >= 0
is_root(uid) == uid = 0

check_root ==
    /\ pc = "check_root"
    /\ trace' = Append(trace, "check_root")
    /\ IF is_root(euid)
       THEN /\ pc' = "get_user_input"
            /\ UNCHANGED <<exited, exitCode, out>>
       ELSE /\ out' = out \cup {"This script must be run as root!"}
            /\ sys_exit(1)
    /\ UNCHANGED << euid, config, arch, pkgIdx, mirrorIdx, tiers, download, installation_failed,
                    zt_interface, nmActive, dhcpcd, interfaces, backups, cron, installs,
                    joined, allowManaged, replies, cmds, calls >>

(* ------------------------------------------------------------------ *)
(* CollectConfig                                                       *)
(* ------------------------------------------------------------------ *)
\* input(...).strip() or default
or_default(raw, default) == IF Strip(raw) = <<>> THEN default ELSE Strip(raw)

\* zt_network if len(zt_network) == 16 else None   (None is <<>>)
zerotier_network_of_any(raw) == Strip(raw)
zerotier_network_of(raw) == IF Len(Strip(raw)) = 16 THEN Strip(raw) ELSE <<>>

\* input(...).strip().lower()
normalise(raw) == Lower(Strip(raw))

\* response in ['yes', 'y']
is_yes_or_empty(answer) == answer \in Yes \cup { <<>> }
is_yes(answer) == answer \in Yes

\* get_user_input, with the netmask and the network id typed drawn from the given sets
get_user_input_from(masks, zts) ==
    /\ pc = "get_user_input"
    /\ trace' = Append(trace, "get_user_input")
    /\ \E phys \in PhysInputs, ips \in BridgeIpTries, mask \in masks,
          gws \in GatewayTries, dns \in DnsInputs, zt \in zts,
          confirm \in YesNoInputs :
         /\ cmds' = cmds \cup {"ip"}
         /\ replies' = replies \cup {<<"ZeroTier Network ID", Strip(zt)>>,
                                     <<"Proceed with these settings?", normalise(confirm)>>}
         /\ IF is_yes(normalise(confirm))
            THEN /\ config' = [ physical_interface |-> or_default(phys, default_interface),
                                bridge_ip |-> Strip(ips[Len(ips)]),
                                netmask |-> or_default(mask, default_netmask),
                                gateway |-> Strip(gws[Len(gws)]),
                                dns |-> or_default(dns, default_dns),
                                zerotier_network |-> zerotier_network_of(zt) ]
                 /\ pc' = "install_packages"
                 /\ UNCHANGED <<exited, exitCode>>
            ELSE /\ UNCHANGED config
                 /\ sys_exit(0)
    /\ UNCHANGED << euid, arch, pkgIdx, mirrorIdx, tiers, download, installation_failed,
                    zt_interface, nmActive, dhcpcd, interfaces, backups, cron, installs,
                    joined, allowManaged, out, calls >>

get_user_input == get_user_input_from(NetmaskInputs, ZtInputs)

(* ------------------------------------------------------------------ *)
(* InstallPackages                                                     *)
(* ------------------------------------------------------------------ *)
\* what one wget run leaves behind: its exit status and the size of the file
Downloads ==
    { [rc |-> 1, size |-> 0], [rc |-> 0, size |-> MinSize], [rc |-> 0, size |-> MinSize + 1] }
NoDownload == [rc |-> 0, size |-> 0]

\* get_architecture: the reported architecture, or armhf when the query fails
get_architecture(rc, stdout) == IF rc = 0 THEN stdout ELSE "armhf"

\* download_package_direct: result.returncode == 0 and file_size > 1000
download_package_direct_at_least(d) == d.rc = 0 /\ d.size >= MinSize
download_package_direct(d) == d.rc = 0 /\ d.size > MinSize

\* install_deb_package: dpkg -i, and once more after apt-get install -f
install_deb_package(rc1, rc2) == IF rc1 # 0 THEN rc2 = 0 ELSE TRUE

\* one attempt in the log of the package being processed
Attempt(tier, ok) == [tier |-> tier, ok |-> ok]

\* the for loop moves on to the next package, or leaves the loop
next_package ==
    /\ pkgIdx' = pkgIdx + 1
    /\ pc' = IF pkgIdx + 1 > Len(packages) THEN "install_zerotier" ELSE "package_loop"

hostUnchanged == UNCHANGED << nmActive, dhcpcd, interfaces, backups, cron, joined, allowManaged >>

install_packages ==
    /\ pc = "install_packages"
    /\ trace' = Append(trace, "install_packages")
    /\ cmds' = cmds \cup {"apt-get", "dpkg"}
    /\ \E rc \in {0, 1}, a \in Archs : arch' = get_architecture(rc, a)
    /\ pkgIdx' = 1 /\ installation_failed' = <<>> /\ tiers' = <<>>
    /\ pc' = "package_loop"
    /\ hostUnchanged
    /\ UNCHANGED << exited, exitCode, euid, config, mirrorIdx, download, zt_interface,
                    installs, replies, out, calls >>

\* loop head: already installed?  otherwise apt-get install
package_loop ==
    /\ pc = "package_loop"
    /\ \E present \in BOOLEAN, rc \in {0, 1} :
         IF present
         THEN /\ tiers' = <<>>
              /\ next_package
              /\ UNCHANGED installs
         ELSE /\ tiers' = << Attempt("apt-get", rc = 0) >>
              /\ IF rc = 0
                 THEN installs' = installs \cup {"package"} /\ next_package
                 ELSE pc' = "download_known" /\ UNCHANGED << installs, pkgIdx >>
    /\ download' = NoDownload
    /\ hostUnchanged
    /\ UNCHANGED << exited, exitCode, euid, config, arch, mirrorIdx, installation_failed,
                    zt_interface, replies, cmds, out, trace, calls >>

\* download_deb_package_improved, first tier: the known URL
download_known ==
    /\ pc = "download_known"
    /\ IF known_packages(packages[pkgIdx], arch)
       THEN \E d \in Downloads :
              /\ download' = d
              /\ tiers' = Append(tiers, Attempt("direct", download_package_direct(d)))
              /\ pc' = IF download_package_direct(d) THEN "install_deb" ELSE "apt_cache"
       ELSE /\ pc' = "apt_cache"
            /\ UNCHANGED << download, tiers >>
    /\ hostUnchanged
    /\ UNCHANGED << exited, exitCode, euid, config, arch, pkgIdx, mirrorIdx,
                    installation_failed, zt_interface, installs, replies, cmds, out,
                    trace, calls >>

\* second tier: look the file name up, then try the mirrors in order
apt_cache ==
    /\ pc = "apt_cache"
    /\ \E rc \in {0, 1} :
         /\ tiers' = Append(tiers, Attempt("apt-cache", rc = 0))
         /\ IF rc = 0
            THEN pc' = "mirror" /\ mirrorIdx' = 1
            ELSE pc' = "snapshot" /\ UNCHANGED mirrorIdx
    /\ download' = NoDownload
    /\ hostUnchanged
    /\ UNCHANGED << exited, exitCode, euid, config, arch, pkgIdx, installation_failed,
                    zt_interface, installs, replies, cmds, out, trace, calls >>

mirror ==
    /\ pc = "mirror"
    /\ \E d \in Downloads :
         /\ download' = d
         /\ tiers' = Append(tiers, Attempt("mirror", download_package_direct(d)))
         /\ IF download_package_direct(d)
            THEN pc' = "install_deb" /\ mirrorIdx' = 0
            ELSE IF mirrorIdx < Len(mirrors)
                 THEN pc' = "mirror" /\ mirrorIdx' = mirrorIdx + 1
                 ELSE pc' = "snapshot" /\ mirrorIdx' = 0
    /\ hostUnchanged
    /\ UNCHANGED << exited, exitCode, euid, config, arch, pkgIdx, installation_failed,
                    zt_interface, installs, replies, cmds, out, trace, calls >>

\* last tier: the snapshot archive; with no file, the package is recorded as failed
snapshot ==
    /\ pc = "snapshot"
    /\ IF snapshot_urls(packages[pkgIdx], arch)
       THEN \E d \in Downloads :
              /\ download' = d
              /\ tiers' = Append(tiers, Attempt("snapshot", download_package_direct(d)))
              /\ IF download_package_direct(d)
                 THEN pc' = "install_deb" /\ UNCHANGED << pkgIdx, installation_failed >>
                 ELSE /\ installation_failed' = Append(installation_failed, packages[pkgIdx])
                      /\ next_package
       ELSE /\ installation_failed' = Append(installation_failed, packages[pkgIdx])
            /\ next_package
            /\ download' = NoDownload
            /\ UNCHANGED tiers
    /\ hostUnchanged
    /\ UNCHANGED << exited, exitCode, euid, config, arch, mirrorIdx, zt_interface,
                    installs, replies, cmds, out, trace, calls >>

\* install_deb_package on the downloaded file
install_deb ==
    /\ pc = "install_deb"
    /\ \E rc1 \in {0, 1}, rc2 \in {0, 1} :
         /\ tiers' = Append(tiers, Attempt("dpkg -i", install_deb_package(rc1, rc2)))
         /\ IF install_deb_package(rc1, rc2)
            THEN /\ installs' = installs \cup {"package"}
                 /\ UNCHANGED installation_failed
            ELSE /\ installation_failed' = Append(installation_failed, packages[pkgIdx])
                 /\ UNCHANGED installs
    /\ next_package
    /\ hostUnchanged
    /\ UNCHANGED << exited, exitCode, euid, config, arch, mirrorIdx, download,
                    zt_interface, replies, cmds, out, trace, calls >>

\* after the loop: the summary, then the overlay client
install_zerotier ==
    /\ pc = "install_zerotier"
    /\ tiers' = <<>> /\ download' = NoDownload
    /\ \E present \in BOOLEAN, rc \in {0, 1} :
         IF present
         THEN /\ pc' = "final_check"
              /\ UNCHANGED << exited, exitCode, installs, out >>
         ELSE IF rc = 0
              THEN /\ installs' = installs \cup {"zerotier"}
                   /\ pc' = "final_check"
                   /\ UNCHANGED << exited, exitCode, out >>
              ELSE /\ out' = out \cup {"Cannot continue without ZeroTier"}
                   /\ sys_exit(1)
                   /\ UNCHANGED installs
    /\ hostUnchanged
    /\ UNCHANGED << euid, config, arch, pkgIdx, mirrorIdx, installation_failed,
                    zt_interface, replies, cmds, trace, calls >>

\* 'ifupdown' in installation_failed
critical_failed_any(failed) == failed # <<>>
critical_failed(failed) == \E i \in 1..Len(failed) : failed[i] = "ifupdown"

\* final check for critical packages; install_packages returns and its locals go
final_check ==
    /\ pc = "final_check"
    /\ \E response \in YesNoInputs :
         IF critical_failed(installation_failed)
         THEN /\ replies' = replies \cup {<<"Continue anyway?", normalise(response)>>}
              /\ IF is_yes(normalise(response))
                 THEN pc' = "configure_dhcpcd" /\ UNCHANGED << exited, exitCode >>
                 ELSE sys_exit(1)
         ELSE /\ pc' = "configure_dhcpcd"
              /\ UNCHANGED << exited, exitCode, replies >>
    /\ arch' = "" /\ pkgIdx' = 0 /\ installation_failed' = <<>>
    /\ hostUnchanged
    /\ UNCHANGED << euid, config, mirrorIdx, tiers, download, zt_interface, installs,
                    cmds, out, trace, calls >>

(* ------------------------------------------------------------------ *)
(* Command Executor and backups                                        *)
(* ------------------------------------------------------------------ *)
\* run_command: subprocess.run raises CalledProcessError on a non-zero exit when
\* check is set; run_command catches it and returns it, so nothing reaches the caller
run_command_raises(rc, check) == FALSE

\* what run_command prints when the command exits non-zero and check is set
run_command_out(command, rc, check) ==
    IF check /\ rc # 0
    THEN { CASE command = "cp" -> "Command failed: cp"
             [] command = "systemctl stop" -> "Command failed: systemctl stop NetworkManager"
             [] command = "systemctl disable" -> "Command failed: systemctl disable NetworkManager" }
    ELSE {}

DhcpcdPath == "/etc/dhcpcd.conf"
InterfacesPath == "/etc/network/interfaces"

\* backup_file: the copies made and the messages printed.  cp leaves a copy only
\* when it exits 0.
backup_file(path, file, cpRc) ==
    IF file.exists
    THEN [ copies |-> IF cpRc = 0 THEN { <<path, file.content>> } ELSE {},
           cmds   |-> {"cp"},
           out    |-> run_command_out("cp", cpRc, TRUE)
                      \cup (IF run_command_raises(cpRc, TRUE)
                            THEN {"Could not create backup"} ELSE {"Backup created"}) ]
    ELSE [ copies |-> {}, cmds |-> {}, out |-> {} ]

(* ------------------------------------------------------------------ *)
(* ConfigureDhcpExclusions                                             *)
(* ------------------------------------------------------------------ *)
\* detect_network_manager: systemctl is-active NetworkManager exits 0
detect_network_manager(nm) == nm

\* handle_network_manager: ret is "True", "False", "exit1" (sys.exit(1)) or
\* "exception" (an exception leaves the function)
handle_network_manager(nm, response, stopRc, disableRc) ==
    IF detect_network_manager(nm)
    THEN IF is_yes(normalise(response))
         THEN IF run_command_raises(stopRc, TRUE) \/ run_command_raises(disableRc, TRUE)
              THEN [ ret |-> "exception", nm |-> IF stopRc = 0 THEN FALSE ELSE nm,
                     replies |-> { <<"Disable NetworkManager?", normalise(response)>> },
                     cmds |-> {"systemctl"},
                     out |-> run_command_out("systemctl stop", stopRc, TRUE) ]
              ELSE [ ret |-> "True", nm |-> IF stopRc = 0 THEN FALSE ELSE nm,
                     replies |-> { <<"Disable NetworkManager?", normalise(response)>> },
                     cmds |-> {"systemctl"},
                     out |-> run_command_out("systemctl stop", stopRc, TRUE)
                             \cup run_command_out("systemctl disable", disableRc, TRUE)
                             \cup {"NetworkManager disabled"} ]
         ELSE [ ret |-> "exit1", nm |-> nm,
                replies |-> { <<"Disable NetworkManager?", normalise(response)>> },
                cmds |-> {"systemctl"},
                out |-> {"Cannot continue with NetworkManager active"} ]
    ELSE [ ret |-> "False", nm |-> nm, replies |-> {}, cmds |-> {"systemctl"},
           out |-> {} ]

\* 'denyinterfaces eth0' in content and 'denyinterfaces zt' in content
already_configured(content) == Contains(NeedleEth0, content) /\ Contains(NeedleZt, content)

\* is handle_network_manager called: only where dhcpcd.conf does not exist
checks_network_manager(file) == ~file.exists

\* exit statuses of systemctl stop, systemctl disable and cp, and the file
\* operation that raises, if one does
IoOutcomes == [ stopRc : {0, 1}, disableRc : {0, 1}, cpRc : {0, 1},
                fails : {"none", "create", "read", "append"} ]

\* configure_dhcpcd as a function of the file, the service, the operator's answer
\* and the outcomes of the commands and file operations
configure_dhcpcd_result(file, nm, response, io) ==
    LET h == IF checks_network_manager(file)
             THEN handle_network_manager(nm, response, io.stopRc, io.disableRc)
             ELSE [ ret |-> "False", nm |-> nm, replies |-> {}, cmds |-> {}, out |-> {} ]
        base == [ file |-> file, nm |-> h.nm, copies |-> {}, replies |-> h.replies,
                  cmds |-> h.cmds, out |-> h.out, ret |-> h.ret ]
    IN  IF h.ret \in {"exit1", "exception"} THEN base
        ELSE IF ~file.exists /\ io.fails = "create"
        THEN [ base EXCEPT !.ret = "False", !.out = @ \cup {"Could not create"} ]
        ELSE
          LET file1 == IF file.exists THEN file ELSE File(DhcpcdHeader)
              b == backup_file(DhcpcdPath, file1, io.cpRc)
              got == [ base EXCEPT !.file = file1, !.copies = b.copies,
                                   !.cmds = @ \cup b.cmds, !.out = @ \cup b.out ]
          IN  IF io.fails = "read"
              THEN [ got EXCEPT !.ret = "False", !.out = @ \cup {"Could not read"} ]
              ELSE IF already_configured(file1.content)
              THEN [ got EXCEPT !.ret = "True",
                                !.out = @ \cup {"dhcpcd is already configured correctly"} ]
              ELSE IF io.fails # "append"
              THEN [ got EXCEPT !.ret = "True", !.file = File(file1.content \o DhcpcdSection),
                                !.out = @ \cup {"dhcpcd configured successfully"} ]
              ELSE [ got EXCEPT !.ret = "False",
                                !.out = @ \cup {"Failed to configure dhcpcd"} ]

\* main: configure_dhcpcd(), and sys.exit(1) when it returns False.  An exception
\* reaching the top level is printed there, and the process ends with status 0.
configure_dhcpcd ==
    /\ pc = "configure_dhcpcd"
    /\ trace' = Append(trace, "configure_dhcpcd")
    /\ \E response \in YesNoInputs, io \in IoOutcomes :
         LET r == configure_dhcpcd_result(dhcpcd, nmActive, response, io)
         IN  /\ dhcpcd' = r.file
             /\ nmActive' = r.nm
             /\ backups' = backups \cup r.copies
             /\ replies' = replies \cup r.replies
             /\ cmds' = cmds \cup r.cmds
             /\ out' = out \cup r.out
             /\ IF r.ret = "True"
                THEN pc' = "configure_network_interfaces" /\ UNCHANGED << exited, exitCode >>
                ELSE IF r.ret = "exception" THEN sys_exit(0) ELSE sys_exit(1)
    /\ UNCHANGED << euid, config, arch, pkgIdx, mirrorIdx, tiers, download, installation_failed,
                    zt_interface, interfaces, cron, installs, joined, allowManaged, calls >>

(* ------------------------------------------------------------------ *)
(* WriteInterfacesFile                                                 *)
(* ------------------------------------------------------------------ *)
WriteOutcomes == {"ok", "open failed", "write failed"}

\* open(interfaces_file, 'w') truncates; f.write then stores the body
configure_network_interfaces_always_true(file, cfg, cpRc, w) ==
    LET b == backup_file(InterfacesPath, file, cpRc)
    IN  [ copies |-> b.copies, cmds |-> b.cmds,
          file |-> CASE w = "ok" -> File(interfaces_config(cfg))
                     [] w = "open failed" -> file
                     [] OTHER -> File(<<>>),
          out |-> b.out \cup (IF w = "ok" THEN {"configured successfully"}
                              ELSE {"Failed to write"}),
          ret |-> TRUE ]
configure_network_interfaces_result(file, cfg, cpRc, w) ==
    LET b == backup_file(InterfacesPath, file, cpRc)
    IN  [ copies |-> b.copies, cmds |-> b.cmds,
          file |-> CASE w = "ok" -> File(interfaces_config(cfg))
                     [] w = "open failed" -> file
                     [] OTHER -> File(<<>>),
          out |-> b.out \cup (IF w = "ok" THEN {"configured successfully"}
                              ELSE {"Failed to write"}),
          ret |-> (w = "ok") ]

configure_network_interfaces ==
    /\ pc = "configure_network_interfaces"
    /\ trace' = Append(trace, "configure_network_interfaces")
    /\ \E cpRc \in {0, 1}, w \in WriteOutcomes :
         LET r == configure_network_interfaces_result(interfaces, config, cpRc, w)
         IN  /\ interfaces' = r.file
             /\ backups' = backups \cup r.copies
             /\ cmds' = cmds \cup r.cmds
             /\ out' = out \cup r.out
             /\ IF r.ret
                THEN /\ pc' = IF config.zerotier_network # <<>>
                              THEN "join_zerotier_network" ELSE "print_instructions"
                     /\ UNCHANGED << exited, exitCode >>
                ELSE sys_exit(1)
    /\ UNCHANGED << euid, config, arch, pkgIdx, mirrorIdx, tiers, download, installation_failed,
                    zt_interface, nmActive, dhcpcd, cron, installs, joined, allowManaged,
                    replies, calls >>

(* ------------------------------------------------------------------ *)
(* JoinOverlay, ConfigureManagedRoutes                                 *)
(* ------------------------------------------------------------------ *)
\* join_zerotier_network: the interface found, or "None"
join_zerotier_network_result(network_id, joinRc, listed) ==
    IF network_id = <<>> THEN "None"
    ELSE IF joinRc = 0 THEN listed
    ELSE "None"

join_zerotier_network ==
    /\ pc = "join_zerotier_network"
    /\ trace' = Append(trace, "join_zerotier_network")
    /\ \E joinRc \in {0, 1}, listed \in ZtNames \cup {"None"} :
         /\ zt_interface' = join_zerotier_network_result(config.zerotier_network, joinRc, listed)
         /\ cmds' = cmds \cup {"zerotier-cli join"}
         /\ joined' = IF joinRc = 0 THEN joined \cup {config.zerotier_network} ELSE joined
         /\ pc' = IF zt_interface' # "None"
                  THEN "configure_zerotier_managed" ELSE "print_instructions"
    /\ UNCHANGED << exited, exitCode, euid, config, arch, pkgIdx, mirrorIdx, tiers, download,
                    installation_failed, nmActive, dhcpcd, interfaces, backups, cron,
                    installs, allowManaged, replies, out, calls >>

ManagedOutcomes == {"list failed", "no network id", "set failed", "ok"}

configure_zerotier_managed ==
    /\ pc = "configure_zerotier_managed"
    /\ trace' = Append(trace, "configure_zerotier_managed")
    /\ \E o \in ManagedOutcomes :
         IF zt_interface = "None"
         THEN /\ out' = out \cup {"No ZeroTier interface provided, skipping..."}
              /\ UNCHANGED << cmds, allowManaged >>
         ELSE /\ cmds' = cmds \cup {"zerotier-cli listnetworks"}
                               \cup (IF o \in {"set failed", "ok"} THEN {"zerotier-cli set"} ELSE {})
              /\ allowManaged' = IF o = "ok" THEN allowManaged \cup {zt_interface}
                                 ELSE allowManaged
              /\ UNCHANGED out
    /\ pc' = "create_cron_job"
    /\ UNCHANGED << exited, exitCode, euid, config, arch, pkgIdx, mirrorIdx, tiers, download,
                    installation_failed, zt_interface, nmActive, dhcpcd, interfaces,
                    backups, cron, installs, joined, replies, calls >>

(* ------------------------------------------------------------------ *)
(* ScheduleBootAction                                                  *)
(* ------------------------------------------------------------------ *)
\* crontab -l: the table, or nothing when root has no table (non-zero exit)
current_cron(table) == IF table.exists THEN table.content ELSE <<>>

\* cron_command in current_cron
cron_exists(zt, current) == Contains(cron_command(zt), current)

\* new_cron = current_cron + f"\n{cron_command}\n"; echo adds a newline of its own
\* (the tables considered hold no quote character, so the shell passes the text on as it is)
new_cron(zt, current) == current \o <<NL>> \o cron_command(zt) \o <<NL>>
echo(text) == text \o <<NL>>

\* create_cron_job: the table afterwards, whether crontab was written, the result
create_cron_job_result(zt, table, writeRc) ==
    IF zt = "None"
    THEN [ table |-> table, wrote |-> FALSE, ret |-> FALSE, cmds |-> {},
           out |-> {"@reboot sleep 60 && brctl addif br0 ZEROTIER_INTERFACE"} ]
    ELSE IF cron_exists(zt, current_cron(table))
    THEN [ table |-> table, wrote |-> FALSE, ret |-> TRUE, cmds |-> {"crontab -l"},
           out |-> {"Cron job already exists"} ]
    ELSE IF writeRc = 0
    THEN [ table |-> File(echo(new_cron(zt, current_cron(table)))), wrote |-> TRUE,
           ret |-> TRUE, cmds |-> {"crontab -l", "crontab -"},
           out |-> {"Cron job added successfully"} ]
    ELSE [ table |-> table, wrote |-> FALSE, ret |-> FALSE,
           cmds |-> {"crontab -l", "crontab -"}, out |-> {"Failed to add cron job"} ]

create_cron_job ==
    /\ pc = "create_cron_job"
    /\ trace' = Append(trace, "create_cron_job")
    /\ \E writeRc \in {0, 1} :
         LET r == create_cron_job_result(zt_interface, cron, writeRc)
         IN  /\ cron' = r.table
             /\ cmds' = cmds \cup r.cmds
             /\ out' = out \cup r.out
    /\ pc' = "print_instructions"
    /\ UNCHANGED << exited, exitCode, euid, config, arch, pkgIdx, mirrorIdx, tiers, download,
                    installation_failed, zt_interface, nmActive, dhcpcd, interfaces,
                    backups, installs, joined, allowManaged, replies, calls >>

(* ------------------------------------------------------------------ *)
(* PrintInstructions, and the run as a whole                           *)
(* ------------------------------------------------------------------ *)
\* print_portal_instructions, print_final_instructions; main returns
print_instructions ==
    /\ pc = "print_instructions"
    /\ trace' = Append(trace, "print_instructions")
    /\ cmds' = cmds \cup {"zerotier-cli info"}
    /\ out' = out \cup {"Manually add ZT interface: sudo brctl addif br0 zt*",
                         "Setup script completed successfully!"}
    /\ sys_exit(0)
    /\ UNCHANGED << euid, config, arch, pkgIdx, mirrorIdx, tiers, download, installation_failed,
                    zt_interface, nmActive, dhcpcd, interfaces, backups, cron, installs,
                    joined, allowManaged, replies, calls >>

Next ==
    \/ check_root
    \/ get_user_input
    \/ install_packages
    \/ package_loop
    \/ download_known
    \/ apt_cache
    \/ mirror
    \/ snapshot
    \/ install_deb
    \/ install_zerotier
    \/ final_check
    \/ configure_dhcpcd
    \/ configure_network_interfaces
    \/ join_zerotier_network
    \/ configure_zerotier_managed
    \/ create_cron_job
    \/ print_instructions

Spec == Init /\ [][Next]_vars

(* ------------------------------------------------------------------ *)
(* A stage invoked more than once                                      *)
(*                                                                     *)
(* The DHCP-exclusion writer and the boot action scheduler are meant   *)
(* to be repeatable.  SpecDhcp and SpecCron start a run at the stage,  *)
(* on a host whose file or job table is any of a range of contents,    *)
(* and invoke the stage up to MaxCalls times; calls keeps what each    *)
(* invocation started from.                                            *)
(* ------------------------------------------------------------------ *)
RECURSIVE SeqsUpTo(_, _)
SeqsUpTo(S, n) ==
    IF n = 0 THEN { <<>> }
    ELSE LET shorter == SeqsUpTo(S, n - 1)
         IN  shorter \cup { Append(q, x) : q \in shorter, x \in S }

DhcpcdLines ==
    { <<"# dhcpcd configuration", NL>>,
      DirectiveEth0 \o <<NL>>,
      DirectiveZt \o <<NL>>,
      <<DENY, "eth0", "1", NL>>,
      <<DENY, "zt", "7abc", NL>>,
      <<"#", DENY, "eth0", NL>>,
      <<DENY, "wlan0", NL>> }
DhcpcdContents == { Flatten(ls) : ls \in SeqsUpTo(DhcpcdLines, MaxLines) }

AllZtNames == {"ztabc", "ztxyz"}
CronLines ==
    { <<"0 3 * * * /usr/bin/backup", NL>>,
      cron_command("ztabc") \o <<NL>>,
      cron_command("ztxyz") \o <<NL>>,
      <<"#">> \o cron_command("ztabc") \o <<NL>> }
CronContents == { Flatten(ls) : ls \in SeqsUpTo(CronLines, MaxCronLines) }

RunConfig ==
    [ physical_interface |-> <<"eth0">>,
      bridge_ip |-> <<"1", "0", ".", "0", ".", "0", ".", "2">>,
      netmask |-> default_netmask,
      gateway |-> <<"1", "0", ".", "0", ".", "0", ".", "1">>,
      dns |-> default_dns,
      zerotier_network |-> Hex16 ]

\* a run that has come as far as stage, on a host with these files
InitAt(stage, done, dhcpcdFile, table) ==
    /\ pc = stage
    /\ exited = FALSE /\ exitCode = 0
    /\ euid = 0
    /\ config = RunConfig
    /\ arch = "" /\ pkgIdx = 0 /\ mirrorIdx = 0 /\ tiers = <<>>
    /\ download = [rc |-> 0, size |-> 0]
    /\ installation_failed = <<>>
    /\ interfaces = Absent
    /\ backups = {}
    /\ dhcpcd = dhcpcdFile
    /\ cron = table
    /\ installs = {} /\ joined = {} /\ allowManaged = {}
    /\ replies = { <<"ZeroTier Network ID", RunConfig.zerotier_network>>,
                   <<"Proceed with these settings?", <<"y", "e", "s">> >> }
    /\ cmds = {} /\ out = {}
    /\ trace = done

InitDhcp ==
    /\ nmActive \in BOOLEAN
    /\ zt_interface = "None"
    /\ \E f \in {Absent} \cup { File(c) : c \in DhcpcdContents } :
         /\ InitAt("configure_dhcpcd", <<"check_root", "get_user_input", "install_packages">>,
                   f, Absent)
         /\ calls = << [file |-> f, ok |-> TRUE] >>

\* the writer is run again on the file the previous run left
again_configure_dhcpcd ==
    /\ pc \in {"configure_network_interfaces", "exit"}
    /\ Len(calls) < MaxCalls
    /\ calls' = Append(calls, [file |-> dhcpcd, ok |-> (pc = "configure_network_interfaces")])
    /\ pc' = "configure_dhcpcd" /\ exited' = FALSE /\ exitCode' = 0
    /\ cmds' = {} /\ out' = {}
    /\ UNCHANGED << euid, config, arch, pkgIdx, mirrorIdx, tiers, download,
                    installation_failed, zt_interface, nmActive, dhcpcd, interfaces,
                    backups, cron, installs, joined, allowManaged, replies, trace >>

NextDhcp == configure_dhcpcd \/ again_configure_dhcpcd

SpecDhcp == InitDhcp /\ [][NextDhcp]_vars

InitCron ==
    /\ nmActive = FALSE
    /\ zt_interface \in AllZtNames
    /\ \E t \in {Absent} \cup { File(c) : c \in CronContents } :
         /\ InitAt("create_cron_job",
                   <<"check_root", "get_user_input", "install_packages", "configure_dhcpcd",
                     "configure_network_interfaces", "join_zerotier_network",
                     "configure_zerotier_managed">>,
                   File(DhcpcdHeader \o DhcpcdSection), t)
         /\ calls = << [file |-> t, ok |-> TRUE] >>

\* the scheduler is invoked again, with the same interface, on the table it left
again_create_cron_job ==
    /\ pc = "print_instructions"
    /\ Len(calls) < MaxCalls
    /\ calls' = Append(calls, [file |-> cron, ok |-> ("Failed to add cron job" \notin out)])
    /\ pc' = "create_cron_job"
    /\ cmds' = {} /\ out' = {}
    /\ UNCHANGED << exited, exitCode, euid, config, arch, pkgIdx, mirrorIdx, tiers, download,
                    installation_failed, zt_interface, nmActive, dhcpcd, interfaces,
                    backups, cron, installs, joined, allowManaged, replies, trace >>

NextCron == create_cron_job \/ again_create_cron_job

SpecCron == InitCron /\ [][NextCron]_vars

\* CollectConfig alone, with the wider choice of answers
NextCollect == check_root \/ get_user_input_from(NetmaskTyped, ZtTyped)
SpecCollect == Init /\ [][NextCollect]_vars

(* ================================================================== *)
(* Properties                                                          *)
(* ================================================================== *)
Last(q) == q[Len(q)]
Range(q) == { q[i] : i \in 1..Len(q) }
Asked(prompt) == \E r \in replies : r[1] = prompt
Refused(prompt) == \E r \in replies : r[1] = prompt /\ r[2] \notin { <<"y", "e", "s">>, <<"y">> }

\* what the run can change on the host
hostState == << dhcpcd, interfaces, cron, nmActive, installs, backups, joined, allowManaged >>

\* the stages of the orchestrator, by the functions main calls
StageOrder ==
    << "check_root", "get_user_input", "install_packages", "configure_dhcpcd",
       "configure_network_interfaces", "join_zerotier_network",
       "configure_zerotier_managed", "create_cron_job", "print_instructions" >>
StageIndex(name) == CHOOSE i \in 1..Len(StageOrder) : StageOrder[i] = name

\* C1: without administrative rights (effective uid other than 0) the run ends
\* with exit status 1 at check_root: it never gets past that stage, and no prompt
\* is answered, no external command runs, nothing is installed, no file or backup
\* is written, no network is joined and the job table stays as it was.
C1_NoRootNoAction ==
    /\ [](euid # 0 =>
            /\ pc \in {"check_root", "exit"}
            /\ (pc = "exit" => exited /\ exitCode = 1 /\ trace = <<"check_root">>)
            /\ replies = {} /\ cmds = {} /\ installs = {} /\ backups = {}
            /\ joined = {} /\ allowManaged = {})
    /\ [][euid # 0 => UNCHANGED hostState]_vars

C1_Witness == euid # 0 /\ pc = "exit" /\ exited /\ exitCode = 1

\* C2: when the answer to "Proceed with these settings?" (trimmed, lower-cased) is
\* neither yes nor y, the run ends there with exit status 0; nothing was installed,
\* no backup was made, no network joined, and up to that point neither
\* configuration file, nor the job table, nor the network service was touched.
C2_CancelLeavesHostAlone ==
    /\ [](Refused("Proceed with these settings?") =>
            /\ pc = "exit" /\ exited /\ exitCode = 0
            /\ trace = <<"check_root", "get_user_input">>
            /\ installs = {} /\ backups = {} /\ joined = {} /\ allowManaged = {}
            /\ config = NoConfig)
    /\ [][(pc \in {"check_root", "get_user_input"}) => UNCHANGED hostState]_vars

C2_Witness ==
    /\ <<"Proceed with these settings?", <<"n", "o">> >> \in replies
    /\ exited /\ exitCode = 0

\* C3: stages are entered in the order of StageOrder, the first five without a gap;
\* and once a fatal step has failed (overlay client installation failed, the
\* DHCP-exclusion writer or the interfaces writer reported failure, the operator
\* refused to disable NetworkManager or to continue without ifupdown) the run has
\* ended with exit status 1 in the stage where that happened.
FatalAt(stage) ==
    CASE stage = "install_packages" ->
            "Cannot continue without ZeroTier" \in out \/ Refused("Continue anyway?")
      [] stage = "configure_dhcpcd" ->
            \/ out \cap {"Could not create", "Could not read", "Failed to configure dhcpcd"} # {}
            \/ Refused("Disable NetworkManager?")
      [] stage = "configure_network_interfaces" -> "Failed to write" \in out
      [] OTHER -> FALSE

C3_StageOrderAndFatalStops ==
    /\ \A i \in 1..Len(trace) : trace[i] \in Range(StageOrder)
    /\ \A i \in 1..Len(trace) : i <= 5 => trace[i] = StageOrder[i]
    /\ \A i, j \in 1..Len(trace) : i < j => StageIndex(trace[i]) < StageIndex(trace[j])
    /\ \A stage \in Range(StageOrder) :
          FatalAt(stage) => exited /\ exitCode = 1 /\ pc = "exit" /\ Last(trace) = stage

C3_Witness ==
    /\ "Failed to write" \in out /\ exited /\ exitCode = 1
    /\ Last(trace) = "configure_network_interfaces"

InstallSteps ==
    { "package_loop", "download_known", "apt_cache", "mirror", "snapshot", "install_deb",
      "install_zerotier", "final_check" }
DownloadTiers == {"direct", "mirror", "snapshot"}

\* a step in which the processing of a package ends with its last attempt failed
PackageGivenUp ==
    /\ pc \in InstallSteps /\ pkgIdx' = pkgIdx + 1
    /\ tiers' # <<>> /\ ~Last(tiers').ok

\* C4 as stated: leaving install_packages, the operator has been asked whether to
\* continue exactly when ifupdown is in the failure list, and a failure of
\* bridge-utils alone never ends the run.
C4_AskedExactlyWhenIfupdownFailed ==
    [][(pc \in InstallSteps /\ pc' \notin InstallSteps) =>
         /\ Asked("Continue anyway?")' <=> ("ifupdown" \in Range(installation_failed))
         /\ installation_failed = <<"bridge-utils">> => ~exited']_vars

\* C4, amended: a package whose last attempt failed is appended to the failure list
\* and the run goes on to the next package or to the overlay client; the overlay
\* client step asks nothing and ends the run only when its own installation fails;
\* at the final check, reached whenever that step did not end the run, the operator
\* is asked exactly when ifupdown is in the failure list, the run goes on to
\* configure_dhcpcd only on yes/y and ends with status 1 otherwise; without ifupdown
\* in the list (bridge-utils alone, or nothing) it goes on without a prompt.
C4_FailuresRecordedPromptAtFinalCheck ==
    /\ [][PackageGivenUp =>
            /\ installation_failed' = Append(installation_failed, packages[pkgIdx])
            /\ ~exited'
            /\ pc' = IF pkgIdx < Len(packages) THEN "package_loop" ELSE "install_zerotier"]_vars
    /\ [][(pc = "install_zerotier") =>
            /\ ~Asked("Continue anyway?")'
            /\ \/ pc' = "final_check" /\ ~exited'
               \/ /\ pc' = "exit" /\ exitCode' = 1
                  /\ "Cannot continue without ZeroTier" \in out']_vars
    /\ [][(pc = "final_check") =>
            /\ Asked("Continue anyway?")' <=> ("ifupdown" \in Range(installation_failed))
            /\ (pc' = "configure_dhcpcd" /\ ~exited') <=> ~Refused("Continue anyway?")'
            /\ Refused("Continue anyway?")' => (pc' = "exit" /\ exited' /\ exitCode' = 1)]_vars

C4_Witness ==
    /\ pc = "configure_dhcpcd"
    /\ <<"Continue anyway?", <<"y">> >> \in replies

\* C5: in the log of attempts for a package, apt-get comes first and every later
\* attempt follows its failure; the known-URL download comes second; the mirror
\* search and the snapshot download come only after every earlier download failed,
\* the snapshot only after the mirror search found nothing or every mirror failed;
\* dpkg -i runs only on a file whose download was accepted.  A download is accepted
\* exactly when wget exited 0 and the file is larger than 1000 bytes; a rejected one
\* is followed by the next candidate or tier, never by the installation of the file.
C5_LogInOrder ==
    \A i \in 1..Len(tiers) :
        LET a == tiers[i]
            earlierFailed ==
                \A j \in 1..(i - 1) :
                    tiers[j].tier \in DownloadTiers \cup {"apt-get"} => ~tiers[j].ok
        IN  /\ a.tier = "apt-get" <=> i = 1
            /\ i > 1 => ~tiers[1].ok
            /\ a.tier = "direct" => i = 2
            /\ a.tier \in {"apt-cache", "mirror", "snapshot"} =>
                  /\ earlierFailed
                  /\ known_packages(packages[pkgIdx], arch) => tiers[2].tier = "direct"
            /\ a.tier = "mirror" =>
                  \E j \in 1..(i - 1) : tiers[j] = Attempt("apt-cache", TRUE)
            /\ a.tier = "snapshot" =>
                  \E j \in 1..(i - 1) :
                      /\ tiers[j].tier = "apt-cache"
                      /\ tiers[j].ok => /\ i - j - 1 = Len(mirrors)
                                        /\ \A k \in (j + 1)..(i - 1) :
                                              tiers[k] = Attempt("mirror", FALSE)
            /\ a.tier = "dpkg -i" =>
                  /\ i > 1 /\ tiers[i - 1].tier \in DownloadTiers /\ tiers[i - 1].ok
                  /\ i = Len(tiers)

Directives == { DirectiveEth0, DirectiveZt }

\* C6 as stated: on a file that lacks at least one of the two directive lines, one
\* run appends both, and after two runs the file holds each directive exactly once.
C6_EachDirectiveExactlyOnce ==
    (/\ pc = "configure_network_interfaces"
     /\ calls[1].file.exists
     /\ \E d \in Directives : LineCount(d, calls[1].file.content) = 0)
    => /\ Len(calls) = 1 => dhcpcd.content = calls[1].file.content \o DhcpcdSection
       /\ (Len(calls) = 2 /\ calls[2].ok) =>
             \A d \in Directives : LineCount(d, dhcpcd.content) = 1

\* C7: after a successful ConfigureDhcpExclusions stage the file holds a
\* deny-management directive for the physical interface of the configuration.
C7_DirectiveNamesPhysicalInterface ==
    pc = "configure_network_interfaces" =>
        Contains(<<"denyinterfaces ">> \o config.physical_interface, dhcpcd.content)

\* C8: while NetworkManager is active neither configuration file is written unless
\* the operator has been asked for permission to disable it; a refusal ends the run
\* with exit status 1 and leaves both files unwritten.
C8_AskedBeforeEitherWrite ==
    /\ [][(nmActive /\ (dhcpcd' # dhcpcd \/ interfaces' # interfaces))
            => Asked("Disable NetworkManager?")']_vars
    /\ [][Refused("Disable NetworkManager?")'
            => exited' /\ exitCode' = 1 /\ UNCHANGED << dhcpcd, interfaces >>]_vars

\* C9: a step that changes a configuration file that existed leaves a backup copy
\* holding the content the file had before the step.
C9_BackupBeforeModification ==
    [][/\ (dhcpcd.exists /\ dhcpcd' # dhcpcd)
            => <<DhcpcdPath, dhcpcd.content>> \in backups'
       /\ (interfaces.exists /\ interfaces' # interfaces)
            => <<InterfacesPath, interfaces.content>> \in backups']_vars

TableText(file) == IF file.exists THEN file.content ELSE <<>>
Reported == "Failed to add cron job" \notin out

\* C10: after two invocations with the same interface that both report success the
\* job table holds the target command line exactly once, whatever it held before;
\* and with the line present the scheduler does not write the table.
C10_ExactlyOneAfterTwo ==
    pc = "print_instructions" =>
        LET k == Len(calls)
            line == cron_command(zt_interface)
        IN  /\ (k = 2 /\ calls[2].ok /\ Reported) => LineCount(line, TableText(cron)) = 1
            /\ LineCount(line, TableText(calls[k].file)) >= 1 =>
                  cron = calls[k].file /\ "crontab -" \notin cmds

OverlayStages == {"join_zerotier_network", "configure_zerotier_managed", "create_cron_job"}
OverlayCommands == {"zerotier-cli join", "zerotier-cli listnetworks", "zerotier-cli set",
                    "crontab -l", "crontab -"}

\* the operator's answer to the network id prompt, trimmed, is not 16 characters long
ShortId == \E r \in replies : r[1] = "ZeroTier Network ID" /\ Len(r[2]) # 16

\* C11: when the network id typed (trimmed) is not 16 characters long, empty
\* included, the configuration holds no network id; none of join_zerotier_network,
\* configure_zerotier_managed and create_cron_job runs: no join, listnetworks, set
\* or crontab command is issued, nothing is joined, no allowManaged setting and no
\* job table changes; and the run is not stopped by this: a successful
\* configure_network_interfaces is followed by print_instructions, which ends the
\* run with exit status 0.
C11_ShortIdSkipsOverlayStages ==
    /\ [](ShortId =>
            /\ config.zerotier_network = <<>>
            /\ Range(trace) \cap OverlayStages = {}
            /\ pc \notin OverlayStages
            /\ cmds \cap OverlayCommands = {}
            /\ joined = {} /\ allowManaged = {} /\ zt_interface = "None")
    /\ [][ShortId => UNCHANGED << cron, joined, allowManaged >>]_vars
    /\ [][(ShortId /\ pc = "configure_network_interfaces" /\ ~exited')
            => pc' = "print_instructions"]_vars
    /\ [][(ShortId /\ pc = "print_instructions")
            => /\ exited' /\ exitCode' = 0
               /\ "Setup script completed successfully!" \in out']_vars

C11_Witness ==
    /\ <<"ZeroTier Network ID", <<"a", "8", "4">> >> \in replies
    /\ exited /\ exitCode = 0
    /\ Last(trace) = "print_instructions"
    /\ "configure_network_interfaces" \in Range(trace)

HexDigits == Digits \cup {"a", "b", "c", "d", "e", "f"}
IsHex16(s) == Len(s) = 16 /\ \A i \in 1..Len(s) : s[i] \in HexDigits

\* C12: the configuration that get_user_input returns has a bridge address, a
\* netmask and a gateway that are each four dot-separated groups of 1 to 3 digits,
\* and a network id that is absent or 16 hexadecimal characters.
C12_RunConfigWellTyped ==
    (pc = "install_packages") =>
        /\ ip_regex_match(config.bridge_ip)
        /\ ip_regex_match(config.netmask)
        /\ ip_regex_match(config.gateway)
        /\ config.zerotier_network = <<>> \/ IsHex16(config.zerotier_network)

\* C13: a package is recorded as failed only at the end of the last tier: by the
\* snapshot step (which follows the failure of every earlier tier), or by the local
\* installation of the snapshot's file; a failed local installation of a file from
\* an earlier tier is followed by the next tier, not by the record.
C13_FailedOnlyAfterEveryTier ==
    /\ [][(Len(installation_failed') = Len(installation_failed) + 1)
            => \/ pc = "snapshot"
               \/ pc = "install_deb" /\ Last(tiers).tier = "snapshot"]_vars
    /\ [][(/\ Len(tiers') = Len(tiers) + 1
           /\ Last(tiers') = Attempt("dpkg -i", FALSE)
           /\ Last(tiers).tier # "snapshot")
            => /\ installation_failed' = installation_failed
               /\ pc' \in {"apt_cache", "mirror", "snapshot"}]_vars

ManualHint == "@reboot sleep 60 && brctl addif br0 ZEROTIER_INTERFACE"

\* C14: in a run that comes to its end without a discovered overlay interface, the
\* job table is as it was at the start of the overlay stages and the operator has
\* been shown the line to add to the job table by hand.
C14_NoInterfaceManualHint ==
    /\ [][(pc \in OverlayStages \cup {"print_instructions"} /\ zt_interface' = "None")
            => cron' = cron]_vars
    /\ []((exited /\ Last(trace) = "print_instructions" /\ zt_interface = "None")
            => ManualHint \in out)

CommandFailed ==
    { "Command failed: cp", "Command failed: systemctl stop NetworkManager",
      "Command failed: systemctl disable NetworkManager" }
SuccessReports == { "Backup created", "NetworkManager disabled" }

\* C15: a step in which a command run with check set exits non-zero ends the run
\* with exit status 1 and prints no report of success.
C15_FatalCommandStopsRun ==
    [][(CommandFailed \cap (out' \ out) # {})
         => /\ exited' /\ exitCode' = 1
            /\ SuccessReports \cap (out' \ out) = {}]_vars

====
